---- MODULE Spec2Model ----
(***************************************************************************)
(* A model of the Turing machine simulator: the growable tape (tape.rs),   *)
(* the rule and ruleset lookup (rule.rs, ruleset.rs), the engine           *)
(* (turing.rs) and the transition snapshot (transition.rs).                *)
(*                                                                         *)
(* Symbols are one-character strings, a Vec<char> is a sequence of them.   *)
(* isize/usize are 64 bits wide; within the bounds below no value comes    *)
(* near 2^63, so plain integers stand for them.                            *)
(***************************************************************************)
EXTENDS Integers, Sequences, FiniteSets, TLC

VARIABLES
    tape,        \* the Tape under test / the engine's live tape
    state,       \* Turing.state
    rules,       \* Turing.rules
    transition,  \* the Transition the caller holds (the last one produced)
    result,      \* what the last next_transition call returned
    lastOp,      \* the call that led to this state, with its arguments
    ideal,       \* the ideal two-way infinite tape the calls describe
    steps,       \* number of calls made so far
    limit,       \* test_turing's loop counter; the turns of run_ui made so far
    pc,          \* position of the caller
    panic,       \* a Rust panic (index out of bounds, expect on Err) happened
    io,          \* the text under conversion and what the conversions returned
    app          \* the driver (bin/ui): App, its History and what it has written

vars == <<tape, state, rules, transition, result, lastOp, ideal, steps, limit, pc, panic, io, app>>

----------------------------------------------------------------------------
(* Bounds of the model                                                     *)

\* longest initial symbol sequence handed to Tape::new
MaxLen == 2
\* head, data_start_at and set_head arguments range over -HeadRange..HeadRange
HeadRange == 1
\* number of tape calls in a behaviour of SpecTape
MaxOps == 3
\* number of engine calls in a behaviour of Spec
MaxSteps == 6

----------------------------------------------------------------------------
(* rule.rs                                                                 *)

Moves == {"Right", "Left", "Stop"}

RuleNew(write, mov, next_state) ==
    [write |-> write, mov |-> mov, next_state |-> next_state]

is_terminal(mov) == mov = "Stop"

----------------------------------------------------------------------------
(* tape.rs                                                                 *)

SPACE == "_"

Max(a, b) == IF a >= b THEN a ELSE b

\* vec![SPACE; n]
Blanks(n) == [i \in 1..n |-> SPACE]

\* Tape::new
TapeNew(data, head, data_start_at) ==
    LET head0 == head - data_start_at
        data_len == Len(data)
    IN  IF head0 = 0
        THEN [data |-> IF data = <<>> THEN <<SPACE>> ELSE data,
              index |-> 0, head_offset |-> head]
        ELSE IF head0 < 0
        THEN [data |-> Blanks(-head0) \o data,
              index |-> 0, head_offset |-> head]
        ELSE [data |-> data \o Blanks(Max(0, head0 + 1 - data_len)),
              index |-> head0, head_offset |-> data_start_at]

\* whether `index as usize` is a valid index of the buffer
InBuffer(t) == t.index >= 0 /\ t.index < Len(t.data)

\* Tape::read: data.get(index as usize).unwrap_or(&SPACE)
TapeRead(t) == IF InBuffer(t) THEN t.data[t.index + 1] ELSE SPACE

\* Tape::head
TapeHead(t) == t.index - t.head_offset

\* an extend whose right padding is one blank short
TapeExtendShortPad(t) ==
    IF t.index < 0
    THEN [data |-> Blanks(-t.index) \o t.data,
          index |-> 0,
          head_offset |-> t.head_offset + t.index]
    ELSE IF t.index > 0 /\ Len(t.data) < t.index + 1
    THEN [t EXCEPT !.data = t.data \o Blanks(t.index - Len(t.data))]
    ELSE t

\* an extend that pads on the right when the index fell off the left end
TapeExtendPadWrongSide(t) ==
    IF t.index < 0
    THEN [data |-> t.data \o Blanks(-t.index),
          index |-> 0,
          head_offset |-> t.head_offset + t.index]
    ELSE IF t.index > 0 /\ Len(t.data) < t.index + 1
    THEN [t EXCEPT !.data = t.data \o Blanks(t.index - Len(t.data) + 1)]
    ELSE t

\* an extend that appends one blank more than the index asks for
TapeExtendSpareCell(t) ==
    IF t.index < 0
    THEN [data |-> Blanks(-t.index) \o t.data,
          index |-> 0,
          head_offset |-> t.head_offset + t.index]
    ELSE IF t.index > 0 /\ Len(t.data) < t.index + 1
    THEN [t EXCEPT !.data = t.data \o Blanks(t.index - Len(t.data) + 2)]
    ELSE t

\* Tape::extend
TapeExtend(t) ==
    IF t.index < 0
    THEN [data |-> Blanks(-t.index) \o t.data,
          index |-> 0,
          head_offset |-> t.head_offset + t.index]
    ELSE IF t.index > 0 /\ Len(t.data) < t.index + 1
    THEN [t EXCEPT !.data = t.data \o Blanks(t.index - Len(t.data) + 1)]
    ELSE t

\* Tape::write: data[index as usize] = c, which panics out of bounds
\* (the callers below test InBuffer first and record the panic)
TapeWrite(t, c) == [t EXCEPT !.data[t.index + 1] = c]

\* a move_head with Left and Right exchanged
TapeMoveHeadSwapped(t, mov) ==
    IF mov = "Right" THEN [t EXCEPT !.index = t.index - 1]
    ELSE IF mov = "Left" THEN [t EXCEPT !.index = t.index + 1]
    ELSE t

\* Tape::move_head
TapeMoveHead(t, mov) ==
    IF mov = "Right" THEN [t EXCEPT !.index = t.index + 1]
    ELSE IF mov = "Left" THEN [t EXCEPT !.index = t.index - 1]
    ELSE t

\* Tape::apply_rule
TapeApplyRule(t, rule) ==
    TapeExtend(TapeMoveHead(TapeWrite(t, rule.write), rule.mov))

\* Tape::set_head
TapeSetHead(t, head) ==
    TapeExtend([t EXCEPT !.index = head + t.head_offset])

----------------------------------------------------------------------------
(* The ideal tape: what the sequence of calls means on a two-way infinite  *)
(* tape.  It holds initial[i] at position start + i, blank elsewhere, the  *)
(* symbols written since, and the position of the head.                    *)

IdealNew(data, head, data_start_at) ==
    [initial |-> data, start |-> data_start_at, head |-> head, pos |-> head,
     written |-> <<>>, relocated |-> FALSE]

InWindow(id, p) == p >= id.start /\ p < id.start + Len(id.initial)

IdealAt(id, p) ==
    IF p \in DOMAIN id.written THEN id.written[p]
    ELSE IF InWindow(id, p) THEN id.initial[p - id.start + 1]
    ELSE SPACE

Delta(mov) == IF mov = "Right" THEN 1 ELSE IF mov = "Left" THEN -1 ELSE 0

IdealApplyRule(id, rule) ==
    [id EXCEPT
        !.written = [q \in DOMAIN id.written \cup {id.pos} |->
                        IF q = id.pos THEN rule.write ELSE id.written[q]],
        !.pos = id.pos + Delta(rule.mov)]

IdealSetHead(id, head) == [id EXCEPT !.pos = head, !.relocated = TRUE]

----------------------------------------------------------------------------
(* Values that stand for "nothing" in variables a specification leaves idle *)

NoRule == RuleNew(SPACE, "Stop", 0)
NoTape == [data |-> <<SPACE>>, index |-> 0, head_offset |-> 0]
NoRules == [rules |-> <<>>, alphabet |-> <<>>, states |-> <<>>]
NoTransition == [some |-> FALSE, state |-> 0, tape |-> NoTape, rule |-> NoRule]
NoResult == [kind |-> "None", rule |-> NoRule, err_state |-> 0, err_symbol |-> SPACE]
NoIdeal == IdealNew(<<>>, 0, 0)
Op(op, rule, head) == [op |-> op, rule |-> rule, head |-> head]
NoIo == [text |-> <<>>]
NoApp == [state |-> "None"]


----------------------------------------------------------------------------
(* ruleset.rs: the lookup table.  rules is the two-level map (a function   *)
(* whose DOMAIN is the set of states present, each mapped to a function    *)
(* whose DOMAIN is the set of symbols bound for that state).               *)

RulesetNew(rules_map, alphabet, states) ==
    [rules |-> rules_map, alphabet |-> alphabet, states |-> states]

Ok(rule) == [kind |-> "Ok", rule |-> rule, err_state |-> 0, err_symbol |-> SPACE]

\* RulesetError::RuleNotFound {state, symbol}, also when wrapped in
\* TuringError::RuleNotFound {rule_error}
RuleNotFound(st, symbol) ==
    [kind |-> "Err", rule |-> NoRule, err_state |-> st, err_symbol |-> symbol]

\* a find that falls back to the blank symbol's rule when the symbol is unbound
RulesetFindBlankFallback(rs, st, symbol) ==
    IF st \in DOMAIN rs.rules /\ symbol \in DOMAIN rs.rules[st]
    THEN Ok(rs.rules[st][symbol])
    ELSE IF st \in DOMAIN rs.rules /\ SPACE \in DOMAIN rs.rules[st]
    THEN Ok(rs.rules[st][SPACE])
    ELSE RuleNotFound(st, symbol)

\* Ruleset::find
RulesetFind(rs, st, symbol) ==
    IF st \in DOMAIN rs.rules /\ symbol \in DOMAIN rs.rules[st]
    THEN Ok(rs.rules[st][symbol])
    ELSE RuleNotFound(st, symbol)

----------------------------------------------------------------------------
(* transition.rs, turing.rs                                                *)

\* Transition::new; the tape is a value of its own (Tape::clone copies the Vec)
TransitionNew(st, tp, rule) == [some |-> TRUE, state |-> st, tape |-> tp, rule |-> rule]

\* Turing::next_transition: the Result it returns
TuringNextTransition(st, tp, rs) == RulesetFind(rs, st, TapeRead(tp))

----------------------------------------------------------------------------
(* SpecTape: a tape built by Tape::new from any small input, then driven   *)
(* by any sequence of apply_rule and set_head calls.                       *)

WriteSymbols == {"a", SPACE}

RECURSIVE SeqsUpTo(_, _)
SeqsUpTo(S, n) ==
    IF n = 0 THEN {<<>>}
    ELSE LET shorter == SeqsUpTo(S, n - 1)
         IN  shorter \cup {Append(s, x) : s \in shorter, x \in S}

Positions == (-HeadRange)..HeadRange

InitTape ==
    /\ \E data \in SeqsUpTo({"a", "b"}, MaxLen), head \in Positions,
          data_start_at \in Positions :
          /\ tape = TapeNew(data, head, data_start_at)
          /\ ideal = IdealNew(data, head, data_start_at)
          /\ lastOp = Op("new", NoRule, head)
    /\ state = 0
    /\ rules = NoRules
    /\ transition = NoTransition
    /\ result = NoResult
    /\ steps = 0
    /\ limit = 0
    /\ pc = "tape"
    /\ panic = FALSE
    /\ io = NoIo
    /\ app = NoApp

ApplyRule ==
    /\ pc = "tape" /\ ~panic /\ steps < MaxOps
    /\ \E write \in WriteSymbols, mov \in Moves :
          LET rule == RuleNew(write, mov, 0)
          IN  /\ lastOp' = Op("apply_rule", rule, 0)
              /\ IF InBuffer(tape)
                 THEN /\ tape' = TapeApplyRule(tape, rule)
                      /\ ideal' = IdealApplyRule(ideal, rule)
                      /\ panic' = FALSE
                 ELSE /\ panic' = TRUE
                      /\ UNCHANGED <<tape, ideal>>
    /\ steps' = steps + 1
    /\ UNCHANGED <<state, rules, transition, result, limit, pc>>
    /\ UNCHANGED <<io, app>>

SetHead ==
    /\ pc = "tape" /\ ~panic /\ steps < MaxOps
    /\ \E head \in Positions :
          /\ tape' = TapeSetHead(tape, head)
          /\ ideal' = IdealSetHead(ideal, head)
          /\ lastOp' = Op("set_head", NoRule, head)
    /\ steps' = steps + 1
    /\ UNCHANGED <<state, rules, transition, result, limit, pc, panic>>
    /\ UNCHANGED <<io, app>>

NextTape == ApplyRule \/ SetHead

SpecTape == InitTape /\ [][NextTape]_vars


----------------------------------------------------------------------------
(* Spec: a Turing engine built by Turing::new from a small tape, a state   *)
(* and a small, possibly partial ruleset, then driven by any sequence of   *)
(* next_transition and apply_transition calls.  The caller keeps the last  *)
(* Transition it was given and may apply it more than once.                *)

TableStates == {0, 1}
TableSymbols == {"a", SPACE}

\* the rules a table cell may hold: "b" is a symbol no row binds and 2 a
\* state no column binds
RuleOpts ==
    { RuleNew("a", "Right", 1), RuleNew(SPACE, "Left", 0),
      RuleNew("b", "Left", 2), RuleNew("a", "Stop", 1) }

PartialFns(D, R) == UNION {[X -> R] : X \in SUBSET D}

Rulesets ==
    { RulesetNew(m, <<"a", SPACE>>, <<0, 1>>) :
        m \in [TableStates -> PartialFns(TableSymbols, RuleOpts)] }

TuringTapes ==
    { TapeNew(data, head, 0) :
        data \in {<<>>, <<"a">>, <<"b", "a">>}, head \in {-1, 0, 1} }

\* Turing::new
Init ==
    /\ tape \in TuringTapes
    /\ state \in TableStates
    /\ rules \in Rulesets
    /\ transition = NoTransition
    /\ result = NoResult
    /\ lastOp = Op("new", NoRule, 0)
    /\ ideal = NoIdeal
    /\ steps = 0
    /\ limit = 0
    /\ pc = "engine"
    /\ panic = FALSE
    /\ io = NoIo
    /\ app = NoApp

\* a next_transition that already moves the engine to the rule's next state
NextTransitionEager ==
    /\ pc = "engine" /\ ~panic /\ steps < MaxSteps
    /\ result' = TuringNextTransition(state, tape, rules)
    /\ transition' = IF result'.kind = "Ok"
                     THEN TransitionNew(state, tape, result'.rule)
                     ELSE transition
    /\ state' = IF result'.kind = "Ok" THEN result'.rule.next_state ELSE state
    /\ lastOp' = Op("next_transition", NoRule, 0)
    /\ steps' = steps + 1
    /\ UNCHANGED <<tape, rules, ideal, limit, pc, panic>>
    /\ UNCHANGED <<io, app>>

\* Turing::next_transition (&self): on Ok the caller now holds the snapshot
NextTransition ==
    /\ pc = "engine" /\ ~panic /\ steps < MaxSteps
    /\ result' = TuringNextTransition(state, tape, rules)
    /\ transition' = IF result'.kind = "Ok"
                     THEN TransitionNew(state, tape, result'.rule)
                     ELSE transition
    /\ lastOp' = Op("next_transition", NoRule, 0)
    /\ steps' = steps + 1
    /\ UNCHANGED <<state, tape, rules, ideal, limit, pc, panic>>
    /\ UNCHANGED <<io, app>>

\* an apply_transition whose Transition shares the engine's tape storage
ApplyTransitionShared ==
    /\ pc = "engine" /\ ~panic /\ steps < MaxSteps
    /\ transition.some
    /\ lastOp' = Op("apply_transition", transition.rule, 0)
    /\ state' = transition.rule.next_state
    /\ tape' = TapeApplyRule(tape, transition.rule)
    /\ transition' = [transition EXCEPT !.tape = tape']
    /\ steps' = steps + 1
    /\ UNCHANGED <<rules, result, ideal, limit, pc, panic>>
    /\ UNCHANGED <<io, app>>

\* Turing::apply_transition (&mut self, &Transition)
ApplyTransition ==
    /\ pc = "engine" /\ ~panic /\ steps < MaxSteps
    /\ transition.some
    /\ lastOp' = Op("apply_transition", transition.rule, 0)
    /\ IF InBuffer(tape)
       THEN /\ state' = transition.rule.next_state
            /\ tape' = TapeApplyRule(tape, transition.rule)
            /\ panic' = FALSE
       ELSE /\ state' = transition.rule.next_state
            /\ panic' = TRUE
            /\ UNCHANGED tape
    /\ steps' = steps + 1
    /\ UNCHANGED <<rules, transition, result, ideal, limit, pc>>
    /\ UNCHANGED <<io, app>>

Next == NextTransition \/ ApplyTransition

Spec == Init /\ [][Next]_vars

----------------------------------------------------------------------------
(* SpecRun: test_turing (turing.rs), the 5x+y machine run on "123+19"      *)

\* the header row of the table: the states in column order
TestStates == <<0, 1, 2, 3, 4, 5, 6, 7, 8, 9, 10>>

\* the data rows: the label symbol, then one cell (write, marker, next state)
\* per header state
TestRows ==
    <<
       <<"1", <<<<"5", "<", 0>>, <<"6", "<", 0>>, <<"7", "<", 0>>, <<"8", "<", 0>>, <<"9", "<", 0>>, <<"0", "<", 6>>, <<"1", "<", 6>>, <<"2", ">", 8>>, <<"1", ">", 8>>, <<"1", ">", 8>>, <<"1", "!", 0>>>>>>,
       <<"2", <<<<"0", "<", 1>>, <<"1", "<", 1>>, <<"2", "<", 1>>, <<"3", "<", 1>>, <<"4", "<", 1>>, <<"1", "<", 6>>, <<"2", "<", 6>>, <<"3", ">", 8>>, <<"2", ">", 8>>, <<"2", ">", 8>>, <<"2", "!", 0>>>>>>,
       <<"3", <<<<"5", "<", 1>>, <<"6", "<", 1>>, <<"7", "<", 1>>, <<"8", "<", 1>>, <<"9", "<", 1>>, <<"2", "<", 6>>, <<"3", "<", 6>>, <<"4", ">", 8>>, <<"3", ">", 8>>, <<"3", ">", 8>>, <<"3", "!", 0>>>>>>,
       <<"4", <<<<"0", "<", 2>>, <<"1", "<", 2>>, <<"2", "<", 2>>, <<"3", "<", 2>>, <<"4", "<", 2>>, <<"3", "<", 6>>, <<"4", "<", 6>>, <<"5", ">", 8>>, <<"4", ">", 8>>, <<"4", ">", 8>>, <<"4", "!", 0>>>>>>,
       <<"5", <<<<"5", "<", 2>>, <<"6", "<", 2>>, <<"7", "<", 2>>, <<"8", "<", 2>>, <<"9", "<", 2>>, <<"4", "<", 6>>, <<"5", "<", 6>>, <<"6", ">", 8>>, <<"5", ">", 8>>, <<"5", ">", 8>>, <<"5", "!", 0>>>>>>,
       <<"6", <<<<"0", "<", 3>>, <<"1", "<", 3>>, <<"2", "<", 3>>, <<"3", "<", 3>>, <<"4", "<", 3>>, <<"5", "<", 6>>, <<"6", "<", 6>>, <<"7", ">", 8>>, <<"6", ">", 8>>, <<"6", ">", 8>>, <<"6", "!", 0>>>>>>,
       <<"7", <<<<"5", "<", 3>>, <<"6", "<", 3>>, <<"7", "<", 3>>, <<"8", "<", 3>>, <<"9", "<", 3>>, <<"6", "<", 6>>, <<"7", "<", 6>>, <<"8", ">", 8>>, <<"7", ">", 8>>, <<"7", ">", 8>>, <<"7", "!", 0>>>>>>,
       <<"8", <<<<"0", "<", 4>>, <<"1", "<", 4>>, <<"2", "<", 4>>, <<"3", "<", 4>>, <<"4", "<", 4>>, <<"7", "<", 6>>, <<"8", "<", 6>>, <<"9", ">", 8>>, <<"8", ">", 8>>, <<"8", ">", 8>>, <<"8", "!", 0>>>>>>,
       <<"9", <<<<"5", "<", 4>>, <<"6", "<", 4>>, <<"7", "<", 4>>, <<"8", "<", 4>>, <<"9", "<", 4>>, <<"8", "<", 6>>, <<"9", "<", 6>>, <<"0", "<", 7>>, <<"9", ">", 8>>, <<"9", ">", 8>>, <<"9", "!", 0>>>>>>,
       <<"0", <<<<"0", "<", 0>>, <<"1", "<", 0>>, <<"2", "<", 0>>, <<"3", "<", 0>>, <<"4", "<", 0>>, <<"9", "<", 5>>, <<"0", "<", 6>>, <<"1", ">", 8>>, <<"0", ">", 8>>, <<"+", ">", 9>>, <<"0", "!", 0>>>>>>,
       <<"+", <<<<"+", "!", 0>>, <<"+", "!", 0>>, <<"+", "!", 0>>, <<"+", "!", 0>>, <<"+", "!", 0>>, <<"_", "<", 10>>, <<"+", "<", 7>>, <<"+", "<", 7>>, <<"+", ">", 9>>, <<"+", ">", 9>>, <<"_", "<", 10>>>>>>,
       <<"_", <<<<"_", ">", 8>>, <<"1", "<", 0>>, <<"2", "<", 0>>, <<"3", "<", 0>>, <<"4", "<", 0>>, <<"_", "!", 0>>, <<"_", "!", 0>>, <<"1", ">", 8>>, <<"_", "<", 5>>, <<"_", "<", 5>>, <<"_", "!", 0>>>>>>
    >>

\* Rule::from_str on the marker character
MoveOf(marker) ==
    IF marker = ">" THEN "Right" ELSE IF marker = "<" THEN "Left" ELSE "Stop"

RuleOfCell(cell) == RuleNew(cell[1], MoveOf(cell[2]), cell[3])

\* the Ruleset that Ruleset::from_str builds from the table: column j of a
\* row is bound to the j-th header state and the row's label symbol
TestRuleset ==
    LET col(st) == CHOOSE j \in 1..Len(TestStates) : TestStates[j] = st
        row(symbol) == CHOOSE i \in 1..Len(TestRows) : TestRows[i][1] = symbol
    IN  RulesetNew(
            [st \in {TestStates[j] : j \in 1..Len(TestStates)} |->
                [symbol \in {TestRows[i][1] : i \in 1..Len(TestRows)} |->
                    RuleOfCell(TestRows[row(symbol)][2][col(st)])]],
            [i \in 1..Len(TestRows) |-> TestRows[i][1]],
            TestStates)

TestLimit == 1000

InitRun ==
    /\ tape = TapeNew(<<"1", "2", "3", "+", "1", "9">>, 2, 0)
    /\ state = 0
    /\ rules = TestRuleset
    /\ transition = NoTransition
    /\ result = NoResult
    /\ lastOp = Op("new", NoRule, 0)
    /\ ideal = NoIdeal
    /\ steps = 0
    /\ limit = TestLimit
    /\ pc = "loop"
    /\ panic = FALSE
    /\ io = NoIo
    /\ app = NoApp

\* let transition = turing.next_transition().expect("Error in transition")
TestNextTransition ==
    /\ pc = "loop" /\ ~panic
    /\ result' = TuringNextTransition(state, tape, rules)
    /\ lastOp' = Op("next_transition", NoRule, 0)
    /\ IF result'.kind = "Ok"
       THEN /\ transition' = TransitionNew(state, tape, result'.rule)
            /\ pc' = "apply"
            /\ panic' = FALSE
       ELSE /\ panic' = TRUE
            /\ UNCHANGED <<transition, pc>>
    /\ UNCHANGED <<state, tape, rules, ideal, steps, limit>>
    /\ UNCHANGED <<io, app>>

\* a loop body that counts the step before it tests for the terminal move
TestApplyTransitionCountFirst ==
    /\ pc = "apply" /\ ~panic
    /\ lastOp' = Op("apply_transition", transition.rule, 0)
    /\ state' = transition.rule.next_state
    /\ tape' = TapeApplyRule(tape, transition.rule)
    /\ limit' = limit - 1
    /\ pc' = IF is_terminal(transition.rule.mov) \/ limit' <= 0 THEN "done" ELSE "loop"
    /\ UNCHANGED <<rules, transition, result, ideal, steps, panic>>
    /\ UNCHANGED <<io, app>>

\* turing.apply_transition(&transition); break on a terminal move, else
\* limit -= 1 and test the loop condition
TestApplyTransition ==
    /\ pc = "apply" /\ ~panic
    /\ lastOp' = Op("apply_transition", transition.rule, 0)
    /\ state' = transition.rule.next_state
    /\ IF InBuffer(tape)
       THEN /\ tape' = TapeApplyRule(tape, transition.rule)
            /\ panic' = FALSE
            /\ IF is_terminal(transition.rule.mov)
               THEN /\ pc' = "done"
                    /\ UNCHANGED limit
               ELSE /\ limit' = limit - 1
                    /\ pc' = IF limit' > 0 THEN "loop" ELSE "done"
       ELSE /\ panic' = TRUE
            /\ UNCHANGED <<tape, pc, limit>>
    /\ UNCHANGED <<rules, transition, result, ideal, steps>>
    /\ UNCHANGED <<io, app>>

NextRun == TestNextTransition \/ TestApplyTransition

SpecRun == InitRun /\ [][NextRun]_vars

----------------------------------------------------------------------------
(* Text.  A &str or String is a sequence of one-character strings.  The    *)
(* operators below are the std functions the parsers call.                 *)

\* char::is_whitespace, for the characters the model's texts hold
WhiteSpace == {" ", "\t", "\n", "\r"}

Digits == <<"0", "1", "2", "3", "4", "5", "6", "7", "8", "9">>

DigitSet == {Digits[i] : i \in 1..10}

DigitValue(c) == CHOOSE d \in 0..9 : Digits[d + 1] = c

MinOf(S) == CHOOSE x \in S : \A y \in S : x <= y

MaxOf(S) == CHOOSE x \in S : \A y \in S : x >= y

\* str::trim
Trim(s) ==
    LET keep == {i \in 1..Len(s) : s[i] \notin WhiteSpace}
    IN  IF keep = {} THEN <<>> ELSE SubSeq(s, MinOf(keep), MaxOf(keep))

\* str::trim_end_matches(|c| c == ch)
TrimEndMatches(s, ch) ==
    LET keep == {i \in 1..Len(s) : s[i] # ch}
    IN  IF keep = {} THEN <<>> ELSE SubSeq(s, 1, MaxOf(keep))

\* str::split(ch): one piece more than there are separators
RECURSIVE SplitOn(_, _)
SplitOn(s, ch) ==
    LET at == {i \in 1..Len(s) : s[i] = ch}
    IN  IF at = {} THEN <<s>>
        ELSE <<SubSeq(s, 1, MinOf(at) - 1)>>
                 \o SplitOn(SubSeq(s, MinOf(at) + 1, Len(s)), ch)

\* str::contains(pattern)
Contains(s, pattern) ==
    \E i \in 1..(Len(s) - Len(pattern) + 1) :
        SubSeq(s, i, i + Len(pattern) - 1) = pattern

\* str::lines: split at "\n", a "\r" before the "\n" dropped, no empty last line
Lines(s) ==
    LET pieces == SplitOn(s, "\n")
        n == Len(pieces)
        ended(i) == IF Len(pieces[i]) > 0 /\ pieces[i][Len(pieces[i])] = "\r"
                    THEN SubSeq(pieces[i], 1, Len(pieces[i]) - 1)
                    ELSE pieces[i]
        count == IF pieces[n] = <<>> THEN n - 1 ELSE n
    IN  [i \in 1..count |-> IF i < n THEN ended(i) ELSE pieces[i]]

\* Iterator::skip(n) and Iterator::take(n) on a sequence
Skip(seq, n) == IF n >= Len(seq) THEN <<>> ELSE SubSeq(seq, n + 1, Len(seq))

Take(seq, n) == IF n >= Len(seq) THEN seq ELSE SubSeq(seq, 1, n)

\* Iterator::skip_while(|l| l.trim().is_empty())
RECURSIVE SkipBlankLines(_)
SkipBlankLines(lines) ==
    IF lines # <<>> /\ Trim(Head(lines)) = <<>>
    THEN SkipBlankLines(Tail(lines))
    ELSE lines

\* the value of a run of decimal digits
RECURSIVE DecimalValue(_)
DecimalValue(ds) ==
    IF ds = <<>> THEN 0
    ELSE 10 * DecimalValue(SubSeq(ds, 1, Len(ds) - 1)) + DigitValue(ds[Len(ds)])

\* str::parse::<u32>: an optional "+", then one digit or more.  The texts
\* of the model hold fewer than ten digits, so the value always fits 32 bits.
ParseU32(s) ==
    LET ds == IF s # <<>> /\ s[1] = "+" THEN Tail(s) ELSE s
    IN  IF ds # <<>> /\ \A i \in 1..Len(ds) : ds[i] \in DigitSet
        THEN [ok |-> TRUE, value |-> DecimalValue(ds)]
        ELSE [ok |-> FALSE, value |-> 0]

\* str::parse::<char>: exactly one character
ParseChar(s) ==
    IF Len(s) = 1 THEN [ok |-> TRUE, value |-> s[1]]
    ELSE [ok |-> FALSE, value |-> SPACE]

\* u32::to_string
RECURSIVE ToDecimal(_)
ToDecimal(n) ==
    IF n < 10 THEN <<Digits[n + 1]>>
    ELSE ToDecimal(n \div 10) \o <<Digits[(n % 10) + 1]>>

\* Iterator::collect::<Vec<String>>().join(sep)
RECURSIVE Join(_, _)
Join(parts, sep) ==
    IF parts = <<>> THEN <<>>
    ELSE IF Len(parts) = 1 THEN parts[1]
    ELSE parts[1] \o sep \o Join(Tail(parts), sep)

\* the concatenation of the parts
RECURSIVE Concat(_)
Concat(parts) == IF parts = <<>> THEN <<>> ELSE Head(parts) \o Concat(Tail(parts))

----------------------------------------------------------------------------
(* rule.rs: impl FromStr for Rule, impl Display for Rule                   *)

Markers == {">", "<", "!"}

\* impl Display for Move
MarkerOf(mov) == IF mov = "Right" THEN ">" ELSE IF mov = "Left" THEN "<" ELSE "!"

RuleOk(rule) == [kind |-> "Ok", rule |-> rule, err |-> "None"]

RuleErr(err) == [kind |-> "Err", rule |-> NoRule, err |-> err]

\* a parser that reports a missing marker as InvalidRule
RuleFromStrNoInvalidMove(s) ==
    IF Len(s) < 2 THEN RuleErr("InvalidRule")
    ELSE IF s[2] \notin Markers THEN RuleErr("InvalidRule")
    ELSE LET next_state == ParseU32(SubSeq(s, 3, Len(s)))
         IN  IF ~next_state.ok THEN RuleErr("InvalidState")
             ELSE RuleOk(RuleNew(s[1], MoveOf(s[2]), next_state.value))

\* impl FromStr for Rule
RuleFromStr(s) ==
    IF Len(s) = 0 THEN RuleErr("InvalidRule")
    ELSE IF Len(s) = 1 THEN RuleErr("InvalidMove")
    ELSE IF s[2] \notin Markers THEN RuleErr("InvalidRule")
    ELSE LET next_state == ParseU32(SubSeq(s, 3, Len(s)))
         IN  IF ~next_state.ok THEN RuleErr("InvalidState")
             ELSE RuleOk(RuleNew(s[1], MoveOf(s[2]), next_state.value))

\* a Display that puts a space between the marker and the state
RuleToStringSpaced(rule) ==
    <<rule.write, MarkerOf(rule.mov), " ">> \o ToDecimal(rule.next_state)

\* impl Display for Rule
RuleToString(rule) ==
    <<rule.write, MarkerOf(rule.mov)>> \o ToDecimal(rule.next_state)

----------------------------------------------------------------------------
(* The rule conversions as a state machine: a rule is rendered and the     *)
(* text parsed, or a raw text is parsed.                                   *)

MaxRuleLen == 4

RuleChars == {"a", ">", "<", "!", "0", "1", "+", " "}

RuleWrites == {"a", " ", ">", "1"}

RuleStates == {0, 7, 10, 1123}

RuleInputs ==
    {RuleNew(w, m, n) : w \in RuleWrites, m \in Moves, n \in RuleStates}

RuleTexts == SeqsUpTo(RuleChars, MaxRuleLen)

NoRuleResult == [kind |-> "None", rule |-> NoRule, err |-> "None"]

InitRule ==
    /\ tape = NoTape
    /\ state = 0
    /\ rules = NoRules
    /\ transition = NoTransition
    /\ result = NoResult
    /\ lastOp = Op("new", NoRule, 0)
    /\ ideal = NoIdeal
    /\ steps = 0
    /\ limit = 0
    /\ panic = FALSE
    /\ app = NoApp
    /\ \/ /\ pc = "render"
          /\ \E r \in RuleInputs :
                io = [origin |-> "rule", rule |-> r, text |-> <<>>,
                      result |-> NoRuleResult]
       \/ /\ pc = "parse"
          /\ \E t \in RuleTexts :
                io = [origin |-> "text", rule |-> NoRule, text |-> t,
                      result |-> NoRuleResult]

\* rule.to_string()
RenderRule ==
    /\ pc = "render"
    /\ io' = [io EXCEPT !.text = RuleToString(io.rule)]
    /\ pc' = "parse"
    /\ UNCHANGED <<tape, state, rules, transition, result, lastOp, ideal,
                   steps, limit, panic, app>>

\* Rule::from_str(text)
ParseRule ==
    /\ pc = "parse"
    /\ io' = [io EXCEPT !.result = RuleFromStr(io.text)]
    /\ pc' = "done"
    /\ UNCHANGED <<tape, state, rules, transition, result, lastOp, ideal,
                   steps, limit, panic, app>>

NextRule == RenderRule \/ ParseRule

SpecRule == InitRule /\ [][NextRule]_vars

----------------------------------------------------------------------------
(* ruleset.rs: impl FromStr for Ruleset                                    *)

NoParseError ==
    [type |-> "None", row |-> 0, col |-> 0, state |-> 0, symbol |-> SPACE,
     text |-> <<>>]

\* RulesetParseError::InvalidRuleset
InvalidRuleset == [NoParseError EXCEPT !.type = "InvalidRuleset"]

\* RulesetParseError::InvalidState {state}: state is the offending text
InvalidState(text) == [NoParseError EXCEPT !.type = "InvalidState", !.text = text]

\* RulesetParseError::InvalidSymbol {row}
InvalidSymbol(row) == [NoParseError EXCEPT !.type = "InvalidSymbol", !.row = row]

\* RulesetParseError::DuplicateState {state}
DuplicateState(st) == [NoParseError EXCEPT !.type = "DuplicateState", !.state = st]

\* RulesetParseError::DuplicateSymbol {symbol}
DuplicateSymbol(symbol) ==
    [NoParseError EXCEPT !.type = "DuplicateSymbol", !.symbol = symbol]

\* RulesetParseError::InvalidFormat {row, col}
InvalidFormat(row, col) ==
    [NoParseError EXCEPT !.type = "InvalidFormat", !.row = row, !.col = col]

\* RulesetParseError::InvalidRule {row, col, format}: format is the raw cell
InvalidRule(row, col, format) ==
    [NoParseError EXCEPT !.type = "InvalidRule", !.row = row, !.col = col,
                         !.text = format]

ParseOk(rs) == [kind |-> "Ok", ruleset |-> rs, err |-> NoParseError]

ParseErr(err) == [kind |-> "Err", ruleset |-> NoRules, err |-> err]

\* HashMap::insert
Insert(map, key, value) ==
    [k \in (DOMAIN map) \cup {key} |-> IF k = key THEN value ELSE map[k]]

\* Vec::contains
VecContains(vec, x) == \E i \in 1..Len(vec) : vec[i] = x

\* line.contains(":-") || line.contains("--")
IsSeparator(line) == Contains(line, <<":", "-">>) \/ Contains(line, <<"-", "-">>)

\* a header loop that lets a repeated state through
RECURSIVE HeaderLoopNoDuplicateCheck(_, _)
HeaderLoopNoDuplicateCheck(cells, rs) ==
    IF cells = <<>> THEN ParseOk(rs)
    ELSE LET st == ParseU32(Head(cells))
         IN  IF ~st.ok THEN ParseErr(InvalidState(Head(cells)))
             ELSE HeaderLoopNoDuplicateCheck(Tail(cells),
                     [rs EXCEPT !.rules = Insert(@, st.value, <<>>),
                                !.states = Append(@, st.value)])

\* the header loop: cells are the trimmed header cells still to read
RECURSIVE HeaderLoop(_, _)
HeaderLoop(cells, rs) ==
    IF cells = <<>> THEN ParseOk(rs)
    ELSE LET st == ParseU32(Head(cells))
         IN  IF ~st.ok THEN ParseErr(InvalidState(Head(cells)))
             ELSE IF st.value \in DOMAIN rs.rules
             THEN ParseErr(DuplicateState(st.value))
             ELSE HeaderLoop(Tail(cells),
                     [rs EXCEPT !.rules = Insert(@, st.value, <<>>),
                                !.states = Append(@, st.value)])

\* a cell loop that binds the cells to the header states from the right
RECURSIVE CellLoopFromRight(_, _, _, _, _)
CellLoopFromRight(cells, i, ind, symbol, rs) ==
    IF cells = <<>> THEN ParseOk(rs)
    ELSE IF i >= Len(rs.states) THEN ParseErr(InvalidFormat(ind, i))
    ELSE LET st == rs.states[Len(rs.states) - i]
             rule == RuleFromStr(Trim(Head(cells)))
         IN  IF rule.kind = "Err"
             THEN ParseErr(InvalidRule(ind, i, Head(cells)))
             ELSE CellLoopFromRight(Tail(cells), i + 1, ind, symbol,
                     [rs EXCEPT !.rules[st] = Insert(@, symbol, rule.rule)])

\* the cell loop of one row: cells are the rule cells still to read, i the
\* index enumerate() gives the first of them
RECURSIVE CellLoop(_, _, _, _, _)
CellLoop(cells, i, ind, symbol, rs) ==
    IF cells = <<>> THEN ParseOk(rs)
    ELSE IF i >= Len(rs.states) THEN ParseErr(InvalidFormat(ind, i))
    ELSE LET st == rs.states[i + 1]
             rule == RuleFromStr(Trim(Head(cells)))
         IN  IF rule.kind = "Err"
             THEN ParseErr(InvalidRule(ind, i, Head(cells)))
             ELSE CellLoop(Tail(cells), i + 1, ind, symbol,
                     [rs EXCEPT !.rules[st] = Insert(@, symbol, rule.rule)])

\* a body loop that rejects a row with fewer rule cells than header states
RECURSIVE BodyLoopAllColumns(_, _, _)
BodyLoopAllColumns(lines, ind, rs) ==
    IF lines = <<>> THEN ParseOk(rs)
    ELSE IF ind = 0 /\ IsSeparator(Head(lines))
    THEN BodyLoopAllColumns(Tail(lines), ind + 1, rs)
    ELSE LET cells == Take(Skip(SplitOn(TrimEndMatches(Head(lines), "|"), "|"), 1),
                           Len(rs.states) + 1)
         IN  IF Len(cells) < Len(rs.states) + 1
             THEN ParseErr(InvalidFormat(ind, Len(cells)))
             ELSE LET symbol == ParseChar(Trim(Head(cells)))
                  IN  IF ~symbol.ok THEN ParseErr(InvalidSymbol(ind))
                      ELSE IF VecContains(rs.alphabet, symbol.value)
                      THEN ParseErr(DuplicateSymbol(symbol.value))
                      ELSE LET row == CellLoop(Tail(cells), 0, ind, symbol.value,
                                        [rs EXCEPT !.alphabet = Append(@, symbol.value)])
                           IN  IF row.kind = "Err" THEN row
                               ELSE BodyLoopAllColumns(Tail(lines), ind + 1, row.ruleset)

\* a body loop that hands every cell of the row to the cell loop
RECURSIVE BodyLoopEveryCell(_, _, _)
BodyLoopEveryCell(lines, ind, rs) ==
    IF lines = <<>> THEN ParseOk(rs)
    ELSE IF ind = 0 /\ IsSeparator(Head(lines))
    THEN BodyLoopEveryCell(Tail(lines), ind + 1, rs)
    ELSE LET cells == Skip(SplitOn(TrimEndMatches(Head(lines), "|"), "|"), 1)
         IN  IF cells = <<>> THEN ParseErr(InvalidFormat(ind, 0))
             ELSE LET symbol == ParseChar(Trim(Head(cells)))
                  IN  IF ~symbol.ok THEN ParseErr(InvalidSymbol(ind))
                      ELSE IF VecContains(rs.alphabet, symbol.value)
                      THEN ParseErr(DuplicateSymbol(symbol.value))
                      ELSE LET row == CellLoop(Tail(cells), 0, ind, symbol.value,
                                        [rs EXCEPT !.alphabet = Append(@, symbol.value)])
                           IN  IF row.kind = "Err" THEN row
                               ELSE BodyLoopEveryCell(Tail(lines), ind + 1, row.ruleset)

\* the body loop: lines are the lines still to read, ind the index
\* enumerate() gives the first of them
RECURSIVE BodyLoop(_, _, _)
BodyLoop(lines, ind, rs) ==
    IF lines = <<>> THEN ParseOk(rs)
    ELSE IF ind = 0 /\ IsSeparator(Head(lines))
    THEN BodyLoop(Tail(lines), ind + 1, rs)
    ELSE LET cells == Take(Skip(SplitOn(TrimEndMatches(Head(lines), "|"), "|"), 1),
                           Len(rs.states) + 1)
         IN  IF cells = <<>> THEN ParseErr(InvalidFormat(ind, 0))
             ELSE LET symbol == ParseChar(Trim(Head(cells)))
                  IN  IF ~symbol.ok THEN ParseErr(InvalidSymbol(ind))
                      ELSE IF VecContains(rs.alphabet, symbol.value)
                      THEN ParseErr(DuplicateSymbol(symbol.value))
                      ELSE LET row == CellLoop(Tail(cells), 0, ind, symbol.value,
                                        [rs EXCEPT !.alphabet = Append(@, symbol.value)])
                           IN  IF row.kind = "Err" THEN row
                               ELSE BodyLoop(Tail(lines), ind + 1, row.ruleset)

\* Ruleset::from_str
RulesetFromStr(s) ==
    LET lines == SkipBlankLines(Lines(s))
    IN  IF lines = <<>> THEN ParseErr(InvalidRuleset)
        ELSE LET cells == Skip(SplitOn(TrimEndMatches(Head(lines), "|"), "|"), 2)
                 header == HeaderLoop([j \in 1..Len(cells) |-> Trim(cells[j])],
                                      RulesetNew(<<>>, <<>>, <<>>))
             IN  IF header.kind = "Err" THEN header
                 ELSE BodyLoop(Tail(lines), 0, header.ruleset)

----------------------------------------------------------------------------
(* ruleset.rs: impl Display for Ruleset                                    *)

\* the orders in which self.rules.keys() can visit the states: HashMap
\* iteration order is unspecified, and the same for every keys() call of a fmt
KeyOrders(map) ==
    {keys \in [1..Cardinality(DOMAIN map) -> DOMAIN map] :
        \A i, j \in DOMAIN keys : i # j => keys[i] # keys[j]}

\* Ruleset::fmt, with keys the order self.rules.keys() iterates in
RulesetToString(rs, keys) ==
    LET cell(st, symbol) ==
            IF st \in DOMAIN rs.rules /\ symbol \in DOMAIN rs.rules[st]
            THEN RuleToString(rs.rules[st][symbol])
            ELSE <<" ", " ", " ", " ", " ">>
        row(symbol) ==
            <<"|", " ">> \o <<symbol>> \o <<" ", "|", " ">>
                \o Join([j \in 1..Len(keys) |-> cell(keys[j], symbol)], <<" ", "|", " ">>)
                \o <<"|", "\n">>
    IN  <<"|", " ", " ", " ", "|", " ">>
            \o Join([j \in 1..Len(keys) |-> ToDecimal(keys[j])], <<" ", "|", " ">>)
            \o <<"|", "\n", "|", ":", "-", ":", "|">>
            \o Concat([j \in 1..Len(keys) |-> <<":", "-", ":", "|">>])
            \o <<"\n">>
            \o Concat([i \in 1..Len(rs.alphabet) |-> row(rs.alphabet[i])])

----------------------------------------------------------------------------
(* SpecParse: a table text is parsed; a parsed Ruleset is rendered and the *)
(* rendered text parsed again.  The table text is laid out from a grid:    *)
(* the header's state cells, the separator line or none, and the pieces    *)
(* (label cell, then rule cells) of each following line.                   *)

MaxRows == 2

HeaderInputs ==
    { <<>>, <<<<" ", "0", " ">>>>, <<<<" ", "0", " ">>, <<"1">>>>, <<<<"1">>, <<" ", "0", " ">>>>, <<<<"1">>, <<"+", "1">>>>,
      <<<<" ", "x", " ">>, <<"1">>, <<"1">>>>, <<<<" ", "0", " ">>, <<"1">>, <<"0", "1">>>>, <<<<"1">>, <<"x">>>> }

SeparatorInputs == { <<>>, <<<<"|", ":", "-", ":", "|", ":", "-", ":", "|">>>>, <<<<"|", "-", "-", "-", "|", "-", "-", "-", "|">>>> }

RowInputs ==
    { <<<<" ", "a", " ">>, <<" ", "a", ">", "1", " ">>, <<" ", "_", "<", "0", " ">>>>,
      <<<<"_">>, <<"_", "!", "0">>, <<"a", ">", "0">>>>,
      <<<<" ", "a", " ">>, <<" ", "a", ">", "1", " ">>>>,
      <<<<" ", "a", " ">>>>,
      <<<<" ", "a", " ">>, <<" ", "a", ">", "1", " ">>, <<" ", "_", "<", "0", " ">>, <<" ", "z", "z", " ">>>>,
      <<<<" ", "_", " ">>, <<"_", "!", "0">>, <<"a", ">", "0">>, <<" ", "-", "-", " ">>>>,
      <<<<" ", "a", " ">>, <<" ", "a", "a", "1", " ">>, <<"a", ">", "0">>>>,
      <<<<" ", "a", "b", " ">>, <<"a", ">", "1">>, <<"a", ">", "0">>>>,
      <<>> }

\* the line of a row: its pieces between pipes; a row of no piece is a line
\* without any pipe
RowLine(pieces) ==
    IF pieces = <<>> THEN <<" ">> ELSE <<"|">> \o Join(pieces, <<"|">>) \o <<"|">>

HeaderLine(cells) == RowLine(<<<<" ", " ", " ">>>> \o cells)

Grid(blank, header, separator, rows) ==
    [blank |-> blank, header |-> header, separator |-> separator, rows |-> rows]

GridLines(g) ==
    (IF g.blank THEN <<<<" ", " ">>>> ELSE <<>>)
        \o <<HeaderLine(g.header)>>
        \o g.separator
        \o [i \in 1..Len(g.rows) |-> RowLine(g.rows[i])]

GridText(g) == Join(GridLines(g), <<"\n">>)

Grids ==
    { Grid(blank, header, separator, rows) :
        blank \in BOOLEAN, header \in HeaderInputs,
        separator \in SeparatorInputs, rows \in SeqsUpTo(RowInputs, MaxRows) }

NoParse == [kind |-> "None", ruleset |-> NoRules, err |-> NoParseError]

InitParse ==
    /\ tape = NoTape
    /\ state = 0
    /\ rules = NoRules
    /\ transition = NoTransition
    /\ result = NoResult
    /\ lastOp = Op("new", NoRule, 0)
    /\ ideal = NoIdeal
    /\ steps = 0
    /\ limit = 0
    /\ panic = FALSE
    /\ app = NoApp
    /\ pc = "parse"
    /\ \E g \in Grids :
          io = [grid |-> g, text |-> GridText(g), round |-> 0, first |-> NoParse,
                keys |-> <<>>, parsed |-> NoParse]

\* text.parse::<Ruleset>()
ParseText ==
    /\ pc = "parse"
    /\ LET parsed == RulesetFromStr(io.text)
       IN  io' = [io EXCEPT !.parsed = parsed,
                            !.first = IF io.round = 0 THEN parsed ELSE @]
    /\ pc' = "parsed"
    /\ UNCHANGED <<tape, state, rules, transition, result, lastOp, ideal,
                   steps, limit, panic, app>>

\* ruleset.to_string() of the Ruleset just parsed
RenderRuleset ==
    /\ pc = "parsed" /\ io.round = 0 /\ io.parsed.kind = "Ok"
    /\ \E keys \in KeyOrders(io.parsed.ruleset.rules) :
          io' = [io EXCEPT !.text = RulesetToString(io.parsed.ruleset, keys),
                           !.keys = keys, !.round = 1, !.parsed = NoParse]
    /\ pc' = "parse"
    /\ UNCHANGED <<tape, state, rules, transition, result, lastOp, ideal,
                   steps, limit, panic, app>>

NextParse == ParseText \/ RenderRuleset

SpecParse == InitParse /\ [][NextParse]_vars

----------------------------------------------------------------------------
(* bin/ui/app.rs, bin/ui/main.rs: the driver.  The engine it owns is the   *)
(* variables tape, state and rules; app holds the App fields, the History  *)
(* and the per-step reports written to the output so far.                  *)

\* App::new: max_iteration
max_iteration == 1000

\* App::new with History::new(vec![], 0, true); listener tells whether
\* non_interactive has registered its report writer, checks whether the
\* build traps integer overflow
AppNew(listener, checks) ==
    [state |-> "Running", storage |-> <<>>, offset |-> 0, follow |-> TRUE,
     listener |-> listener, checks |-> checks, out |-> <<>>, error |-> NoResult]

\* write_transition: the report of one transition, with its step number
WriteTransition(out, t, step) == Append(out, [step |-> step, transition |-> t])

\* History::notify: every listener gets the transition and storage.len()
HistoryNotify(a, x) ==
    IF a.listener THEN [a EXCEPT !.out = WriteTransition(@, x, Len(a.storage))]
    ELSE a

\* a History::add that pushes the transition twice
HistoryAddTwice(a, t) ==
    HistoryNotify([a EXCEPT !.storage = Append(Append(@, t), t)], t)

\* History::add
HistoryAdd(a, t) ==
    HistoryNotify([a EXCEPT !.storage = Append(@, t)], t)

\* a next_step that does not look at the rule's move
AppNextStepIgnoresStop ==
    /\ result' = TuringNextTransition(state, tape, rules)
    /\ lastOp' = Op("next_step", NoRule, 0)
    /\ IF result'.kind = "Ok"
       THEN LET t == TransitionNew(state, tape, result'.rule)
                quit == Len(app.storage) >= max_iteration
            IN  /\ transition' = t
                /\ state' = t.rule.next_state
                /\ IF InBuffer(tape)
                   THEN /\ tape' = TapeApplyRule(tape, t.rule)
                        /\ app' = HistoryAdd(
                               [app EXCEPT !.state = IF quit THEN "Quit" ELSE @], t)
                        /\ steps' = steps + 1
                        /\ panic' = FALSE
                   ELSE /\ panic' = TRUE
                        /\ UNCHANGED <<tape, app, steps>>
       ELSE /\ app' = [app EXCEPT !.state = "Quit", !.error = result']
            /\ UNCHANGED <<transition, state, tape, steps, panic>>

\* App::next_step
AppNextStep ==
    /\ result' = TuringNextTransition(state, tape, rules)
    /\ lastOp' = Op("next_step", NoRule, 0)
    /\ IF result'.kind = "Ok"
       THEN LET t == TransitionNew(state, tape, result'.rule)
                quit == Len(app.storage) >= max_iteration \/ is_terminal(t.rule.mov)
            IN  /\ transition' = t
                /\ state' = t.rule.next_state
                /\ IF InBuffer(tape)
                   THEN /\ tape' = TapeApplyRule(tape, t.rule)
                        /\ app' = HistoryAdd(
                               [app EXCEPT !.state = IF quit THEN "Quit" ELSE @], t)
                        /\ steps' = steps + 1
                        /\ panic' = FALSE
                   ELSE /\ panic' = TRUE
                        /\ UNCHANGED <<tape, app, steps>>
       ELSE /\ app' = [app EXCEPT !.state = "Quit", !.error = result']
            /\ UNCHANGED <<transition, state, tape, steps, panic>>

\* the tables main reads: a machine that never stops, one that runs to the
\* first blank and stops, and one whose symbol a has no rule in state 1
MainTables ==
    { Grid(FALSE, <<<<" ", "0", " ">>, <<" ", "1", " ">>>>, <<<<"|", ":", "-", ":", "|", ":", "-", ":", "|", ":", "-", ":", "|">>>>,
           << <<<<" ", "a", " ">>, <<" ", "a", ">", "1", " ">>, <<" ", "a", "<", "0", " ">>>>, <<<<" ", "_", " ">>, <<" ", "a", ">", "1", " ">>, <<" ", "a", "<", "0", " ">>>> >>),
      Grid(FALSE, <<<<" ", "0", " ">>>>, <<>>,
           << <<<<" ", "a", " ">>, <<" ", "a", ">", "0", " ">>>>, <<<<" ", "_", " ">>, <<" ", "_", "!", "0", " ">>>> >>),
      Grid(FALSE, <<<<" ", "0", " ">>, <<" ", "1", " ">>>>, <<>>,
           << <<<<" ", "a", " ">>, <<" ", "a", ">", "1", " ">>>>, <<<<" ", "_", " ">>, <<" ", "_", "!", "0", " ">>, <<" ", "_", "!", "1", " ">>>> >>) }

\* main: Ruleset::from_str(rules_str)
MainRulesets == {RulesetFromStr(GridText(g)).ruleset : g \in MainTables}

\* string_to_tape: Tape::new(tape_str.chars().collect(), start, 0)
MainTapes ==
    { TapeNew(<<"a", "a">>, 0, 0), TapeNew(<<"a">>, 1, 0), TapeNew(<<"b">>, 0, 0) }

----------------------------------------------------------------------------
(* SpecApp: main without a terminal (non_interactive): App::run            *)

\* non_interactive: App::new(Turing::new(tape, 0, rules)), add_listener
InitApp ==
    /\ tape \in MainTapes
    /\ state = 0
    /\ rules \in MainRulesets
    /\ transition = NoTransition
    /\ result = NoResult
    /\ lastOp = Op("new", NoRule, 0)
    /\ ideal = NoIdeal
    /\ steps = 0
    /\ limit = 0
    /\ pc = "run"
    /\ panic = FALSE
    /\ io = NoIo
    /\ app = AppNew(TRUE, FALSE)

\* App::run: one turn of the loop; an Err leaves run through the ?
RunStep ==
    /\ pc = "run" /\ ~panic /\ app.state = "Running"
    /\ AppNextStep
    /\ pc' = IF result'.kind = "Err" THEN "failed" ELSE "run"
    /\ UNCHANGED <<rules, ideal, limit, io>>

\* App::run: is_running() is false, run returns Ok(())
RunReturn ==
    /\ pc = "run" /\ ~panic /\ app.state = "Quit"
    /\ pc' = "done"
    /\ lastOp' = Op("return", NoRule, 0)
    /\ UNCHANGED <<tape, state, rules, transition, result, ideal, steps, limit,
                   panic, io, app>>

NextApp == RunStep \/ RunReturn

SpecApp == InitApp /\ [][NextApp]_vars

----------------------------------------------------------------------------
(* SpecMain: main in either mode.  Without a terminal it is App::run as in *)
(* SpecApp; with one it is App::run_ui, a loop of update, handle_events    *)
(* and draw, and write_history once the loop has ended.                    *)

\* number of turns of the run_ui loop in a behaviour
MaxFrames == 4

\* the keys handle_events tells apart; "none" is no key or any other key
Keys == {"none", "q", "Down", "Up"}

\* what a handler gives back: the App, or a panic
Done(a) == [panic |-> FALSE, app |-> a]

Panicked(a) == [panic |-> TRUE, app |-> a]

\* App::scroll_up
AppScrollUp(a) ==
    IF a.follow
    THEN [a EXCEPT !.follow = FALSE,
                   !.offset = IF Len(a.storage) >= 2 THEN Len(a.storage) - 2 ELSE 0]
    ELSE [a EXCEPT !.offset = IF a.offset >= 1 THEN a.offset - 1 ELSE 0]

\* a scroll_down that leaves an empty history alone
AppScrollDownGuarded(a) ==
    IF a.storage = <<>> THEN Done(a)
    ELSE LET history_scroll_offset ==
                 IF a.offset + 1 <= Len(a.storage) - 1
                 THEN a.offset + 1 ELSE Len(a.storage) - 1
         IN  Done([a EXCEPT
                 !.follow = IF ~a.follow /\ a.offset = history_scroll_offset
                            THEN TRUE ELSE @,
                 !.offset = history_scroll_offset])

\* App::scroll_down.  storage.len() - 1 on an empty history overflows usize:
\* a panic when the build traps overflow, else the largest usize, which the
\* min then never picks
AppScrollDown(a) ==
    IF a.storage = <<>> /\ a.checks THEN Panicked(a)
    ELSE LET history_scroll_offset ==
                 IF a.storage = <<>> \/ a.offset + 1 <= Len(a.storage) - 1
                 THEN a.offset + 1 ELSE Len(a.storage) - 1
         IN  Done([a EXCEPT
                 !.follow = IF ~a.follow /\ a.offset = history_scroll_offset
                            THEN TRUE ELSE @,
                 !.offset = history_scroll_offset])

\* App::quit
AppQuit(a) == [a EXCEPT !.state = "Quit"]

\* RulesetWidget::render: find(state, symbol).unwrap() for every state of
\* states() and symbol of alphabet() panics on a pair without a rule
RulesetWidgetPanics(rs) ==
    \E j \in 1..Len(rs.states) : \E i \in 1..Len(rs.alphabet) :
        RulesetFind(rs, rs.states[j], rs.alphabet[i]).kind = "Err"

\* History::render: history.len() - scroll_offset overflows when the offset
\* is beyond the history; following, the offset shown is never beyond it
HistoryWidgetPanics(a) == a.checks /\ ~a.follow /\ a.offset > Len(a.storage)

\* write_history: every entry of the history with its enumerate() index
WriteHistory(a) ==
    [a EXCEPT !.out = [k \in 1..Len(a.storage) |->
                          [step |-> k - 1, transition |-> a.storage[k]]]]

\* main: non_interactive or interactive, App::new
InitMain ==
    /\ tape \in MainTapes
    /\ state = 0
    /\ rules \in MainRulesets
    /\ transition = NoTransition
    /\ result = NoResult
    /\ lastOp = Op("new", NoRule, 0)
    /\ ideal = NoIdeal
    /\ steps = 0
    /\ limit = 0
    /\ panic = FALSE
    /\ io = NoIo
    /\ \/ pc = "run" /\ app = AppNew(TRUE, FALSE)
       \/ pc = "update" /\ \E checks \in BOOLEAN : app = AppNew(FALSE, checks)

\* App::run_ui: is_running(), then update; the step timer has run out or not
Update ==
    /\ pc = "update" /\ ~panic /\ app.state = "Running" /\ limit < MaxFrames
    /\ \/ /\ AppNextStep
          /\ pc' = IF result'.kind = "Err" THEN "failed" ELSE "events"
       \/ /\ pc' = "events"
          /\ lastOp' = Op("update", NoRule, 0)
          /\ UNCHANGED <<tape, state, transition, result, steps, panic, app>>
    /\ UNCHANGED <<rules, ideal, limit, io>>

\* App::handle_events
HandleEvents ==
    /\ pc = "events" /\ ~panic
    /\ \E key \in Keys :
          LET after == CASE key = "q" -> Done(AppQuit(app))
                         [] key = "Down" -> AppScrollDown(app)
                         [] key = "Up" -> Done(AppScrollUp(app))
                         [] OTHER -> Done(app)
          IN  /\ app' = after.app
              /\ panic' = after.panic
              /\ lastOp' = Op(key, NoRule, 0)
    /\ pc' = "draw"
    /\ UNCHANGED <<tape, state, rules, transition, result, ideal, steps, limit, io>>

\* App::draw: Window::render
Draw ==
    /\ pc = "draw" /\ ~panic
    /\ lastOp' = Op(IF RulesetWidgetPanics(rules) THEN "RulesetWidget::render"
                    ELSE IF HistoryWidgetPanics(app) THEN "History::render"
                    ELSE "draw", NoRule, 0)
    /\ panic' = (RulesetWidgetPanics(rules) \/ HistoryWidgetPanics(app))
    /\ pc' = "update"
    /\ limit' = limit + 1
    /\ UNCHANGED <<tape, state, rules, transition, result, ideal, steps, io, app>>

\* interactive: run_ui has returned Ok, write_history
Exit ==
    /\ pc = "update" /\ ~panic /\ app.state = "Quit"
    /\ app' = WriteHistory(app)
    /\ pc' = "written"
    /\ lastOp' = Op("write_history", NoRule, 0)
    /\ UNCHANGED <<tape, state, rules, transition, result, ideal, steps, limit,
                   panic, io>>

NextMain == RunStep \/ RunReturn \/ Update \/ HandleEvents \/ Draw \/ Exit

SpecMain == InitMain /\ [][NextMain]_vars

----------------------------------------------------------------------------
(* Claims about the tape, checked under SpecTape                           *)

\* C1: after every apply_rule, head() is the head() before the call plus 1
\* for Right, minus 1 for Left and unchanged for Stop, and after every
\* set_head(p) head() is p, whether or not the call grew the buffer.
C1_HeadFollowsCalls ==
    [][ /\ (lastOp'.op = "apply_rule" /\ ~panic') =>
              TapeHead(tape') = TapeHead(tape) + Delta(lastOp'.rule.mov)
        /\ lastOp'.op = "set_head" => TapeHead(tape') = lastOp'.head ]_vars

\* C2: after Tape::new and after every apply_rule and set_head, the buffer
\* has at least one cell and the index is a valid index into it.
C2_IndexInBuffer ==
    pc = "tape" => Len(tape.data) >= 1 /\ 0 <= tape.index /\ tape.index <= Len(tape.data) - 1

\* C2 witness: the buffer has grown to the left (the offset moved) and to
\* the right (it is longer than the first buffer plus the left padding), and
\* the index is the last cell.
C2_Witness ==
    LET first == TapeNew(ideal.initial, ideal.head, ideal.start)
    IN  /\ pc = "tape" /\ steps >= 2
        /\ tape.head_offset < first.head_offset
        /\ Len(tape.data) > Len(first.data) + (first.head_offset - tape.head_offset)
        /\ tape.index = Len(tape.data) - 1

\* C3: as long as only apply_rule has been called, read() is the symbol the
\* ideal two-way infinite tape holds under its head.
C3_ReadRefinesIdealTape ==
    (pc = "tape" /\ ~ideal.relocated) => TapeRead(tape) = IdealAt(ideal, ideal.pos)

\* C3 witness: the head has come back, by a Right move, to a cell it wrote
\* "a" to on an empty tape, after a Left move grew the buffer to the left.
C3_Witness ==
    /\ pc = "tape" /\ ~ideal.relocated
    /\ Len(ideal.initial) = 0
    /\ tape.head_offset < TapeNew(ideal.initial, ideal.head, ideal.start).head_offset
    /\ lastOp.op = "apply_rule" /\ lastOp.rule.mov = "Right"
    /\ ideal.pos \in DOMAIN ideal.written
    /\ ideal.written[ideal.pos] = "a"
    /\ TapeRead(tape) = "a"

\* C4: when the head is on a logical position that was never written and
\* lies outside the initial data window, read() is the blank symbol, however
\* the head got there (apply_rule moves or set_head).
C4_UnvisitedReadsBlank ==
    (pc = "tape" /\ ideal.pos \notin DOMAIN ideal.written /\ ~InWindow(ideal, ideal.pos))
        => TapeRead(tape) = SPACE

\* C5: right after Tape::new(initial, head, data_start_at), head() is head.
C5_NewHeadIsHead ==
    (pc = "tape" /\ lastOp.op = "new") => TapeHead(tape) = ideal.head

----------------------------------------------------------------------------
(* Claims about the engine, checked under Spec                             *)

\* the pair (state, symbol under the head) is bound in the ruleset
Bound(rs, st, symbol) == st \in DOMAIN rs.rules /\ symbol \in DOMAIN rs.rules[st]

\* the symbol at k cells from the head (k < 0: to its left), blank off the buffer
Cell(t, k) ==
    IF t.index + k >= 0 /\ t.index + k < Len(t.data)
    THEN t.data[t.index + k + 1]
    ELSE SPACE

\* C6: a next_transition call, whether it returns a Transition or fails with
\* RuleNotFound, leaves the engine's state, tape (buffer, index, offset) and
\* ruleset as they were.
C6_NextTransitionIsPure ==
    [][ lastOp'.op = "next_transition" =>
            (state' = state /\ tape' = tape /\ rules' = rules) ]_vars

\* C6 witness: a failed next_transition on an engine that has already been
\* stepped away from the configuration of the Transition the caller holds.
C6_Witness ==
    /\ pc = "engine" /\ lastOp.op = "next_transition"
    /\ result.kind = "Err"
    /\ transition.some /\ transition.tape # tape /\ transition.state # state

\* C7: next_transition fails with RuleNotFound{state, symbol}, carrying the
\* engine's state and the symbol under the head, exactly when the ruleset
\* binds no rule to that pair; otherwise the Transition it returns carries
\* the rule bound to the pair.
C7_RuleNotFoundIffUnbound ==
    (pc = "engine" /\ lastOp.op = "next_transition") =>
        LET symbol == TapeRead(tape)
        IN  /\ result.kind \in {"Ok", "Err"}
            /\ result.kind = "Err" <=> ~Bound(rules, state, symbol)
            /\ result.kind = "Err" =>
                   result.err_state = state /\ result.err_symbol = symbol
            /\ result.kind = "Ok" =>
                   /\ transition.some
                   /\ transition.rule = rules.rules[state][symbol]

\* C7 witness: the lookup fails on a symbol that the state's column does not
\* bind although the state is in the table, after an earlier call succeeded.
C7_Witness ==
    /\ pc = "engine" /\ lastOp.op = "next_transition"
    /\ result.kind = "Err" /\ result.err_symbol = "b"
    /\ state \in DOMAIN rules.rules
    /\ TapeRead(tape) \notin DOMAIN rules.rules[state]
    /\ transition.some

\* C8: applying the Transition that next_transition produced for the current
\* configuration sets the state to the rule's next_state, puts the rule's
\* write symbol in the cell the head was on, leaves every other cell as it
\* was, and puts the head one cell to the right (Right), one to the left
\* (Left) or on the same cell (Stop).  Cells are named by their distance from
\* the head, so the statement does not depend on how the buffer grew.
C8_ApplyTransitionEffect ==
    [][ (/\ lastOp'.op = "apply_transition" /\ ~panic'
         /\ transition.some /\ transition.state = state /\ transition.tape = tape) =>
            LET rule == transition.rule
                d == Delta(rule.mov)
                far == Len(tape.data) + Len(tape'.data) + 1
            IN  /\ state' = rule.next_state
                /\ \A k \in (-far)..far :
                       Cell(tape', k) = IF k + d = 0 THEN rule.write
                                        ELSE Cell(tape, k + d) ]_vars

\* C8 witness: a Left transition was applied with the head on the first cell
\* of the buffer, so the buffer grew to the left, and the written symbol is
\* now one cell right of the head.
C8_Witness ==
    /\ pc = "engine" /\ lastOp.op = "apply_transition"
    /\ lastOp.rule.mov = "Left" /\ lastOp.rule.write = "b"
    /\ transition.some /\ transition.tape.index = 0
    /\ tape = TapeApplyRule(transition.tape, transition.rule)
    /\ Len(tape.data) = Len(transition.tape.data) + 1
    /\ Cell(tape, 1) = "b"

\* C9: the Transition returned by next_transition holds the state and the
\* whole tape the engine had at the call, and applying a transition to the
\* engine changes nothing in the Transition the caller holds.
C9_TransitionIsSnapshot ==
    [][ /\ (lastOp'.op = "next_transition" /\ result'.kind = "Ok") =>
               (transition'.some /\ transition'.state = state /\ transition'.tape = tape)
        /\ lastOp'.op = "apply_transition" => transition' = transition ]_vars

\* C9 witness: the held Transition has been applied twice; the engine's tape
\* and state now differ from the snapshot's.
C9_Witness ==
    /\ pc = "engine" /\ lastOp.op = "apply_transition"
    /\ transition.some
    /\ tape.data # transition.tape.data
    /\ state # transition.state
    /\ tape # TapeApplyRule(transition.tape, transition.rule)

----------------------------------------------------------------------------
(* Claim about test_turing, checked under SpecRun                          *)

\* C10: the run never meets an unbound (state, symbol) pair, and when the
\* loop ends a Stop rule has just been applied, the buffer is "_634____" and
\* 170 non-Stop transitions were applied before it (limit = 1000 - 170).
C10_TestTuringRun ==
    /\ ~panic /\ result.kind # "Err"
    /\ pc = "done" =>
           /\ is_terminal(lastOp.rule.mov)
           /\ tape.data = <<"_", "6", "3", "4", "_", "_", "_", "_">>
           /\ limit = TestLimit - 170

\* C10 witness: the loop has ended.
C10_Witness == pc = "done" /\ lastOp.op = "apply_transition" /\ limit < TestLimit

----------------------------------------------------------------------------
(* Claims about the rule conversions, checked under SpecRule               *)

\* the text is the decimal numeral of n: digits only, no leading zero
IsDecimalOf(ds, n) ==
    /\ ds # <<>>
    /\ \A i \in 1..Len(ds) : ds[i] \in DigitSet
    /\ (Len(ds) > 1 => ds[1] # "0")
    /\ DecimalValue(ds) = n

\* C16: the rendered text of a rule is its symbol, then '>' for Right, '<'
\* for Left or '!' for Stop, then the decimal state id, nothing in between;
\* parsing that text gives the rule back.
C16_RuleRoundTrip ==
    (io.origin = "rule" /\ pc \in {"parse", "done"}) =>
        /\ Len(io.text) >= 3
        /\ io.text[1] = io.rule.write
        /\ (io.rule.mov = "Right" => io.text[2] = ">")
        /\ (io.rule.mov = "Left" => io.text[2] = "<")
        /\ (io.rule.mov = "Stop" => io.text[2] = "!")
        /\ IsDecimalOf(SubSeq(io.text, 3, Len(io.text)), io.rule.next_state)
        /\ (pc = "done" => io.result = RuleOk(io.rule))

C16_Witness ==
    /\ pc = "done" /\ io.origin = "rule"
    /\ io.rule = RuleNew(" ", "Left", 1123)
    /\ io.text = <<" ", "<", "1", "1", "2", "3">>
    /\ io.result.kind = "Ok"

\* what the integer parser accepts: an optional '+', then digits
IsUnsignedText(s) ==
    \E sign \in {<<>>, <<"+">>} :
        /\ Len(s) > Len(sign)
        /\ SubSeq(s, 1, Len(sign)) = sign
        /\ \A i \in (Len(sign) + 1)..Len(s) : s[i] \in DigitSet

\* C17: parsing an empty text fails with InvalidRule; a text of one
\* character fails with InvalidMove; a text whose second character is no
\* marker fails with InvalidRule; a text with a marker whose remainder is
\* not an unsigned integer (the empty remainder included) fails with
\* InvalidState.
C17_RuleParseErrors ==
    pc = "done" =>
        LET s == io.text
            err == IF io.result.kind = "Err" THEN io.result.err ELSE "None"
        IN  /\ (Len(s) = 0 => err = "InvalidRule")
            /\ (Len(s) = 1 => err = "InvalidMove")
            /\ (Len(s) >= 2 /\ s[2] \notin {">", "<", "!"} => err = "InvalidRule")
            /\ (Len(s) >= 2 /\ s[2] \in {">", "<", "!"}
                    /\ ~IsUnsignedText(SubSeq(s, 3, Len(s)))
                => err = "InvalidState")

C17_Witness ==
    /\ pc = "done" /\ io.origin = "text"
    /\ Len(io.text) = 1
    /\ io.result = RuleErr("InvalidMove")

----------------------------------------------------------------------------
(* Claims about the table text, checked under SpecParse                    *)

\* the rows of the grid that are data rows: every row, but a first row that
\* stands where the separator would and reads as one
DataRows(g) ==
    IF g.separator = <<>> /\ g.rows # <<>> /\ IsSeparator(RowLine(g.rows[1]))
    THEN Tail(g.rows)
    ELSE g.rows

\* the number a cell shows: the value of its digits
NumberIn(cell) == DecimalValue(SelectSeq(cell, LAMBDA c : c \in DigitSet))

\* the rule a well-formed cell shows: symbol, marker, decimal state
RuleIn(cell) ==
    LET shown == SelectSeq(cell, LAMBDA c : c # " ")
    IN  RuleNew(shown[1],
                CASE shown[2] = ">" -> "Right"
                  [] shown[2] = "<" -> "Left"
                  [] OTHER -> "Stop",
                NumberIn(SubSeq(shown, 3, Len(shown))))

\* the symbol a label cell shows
LabelIn(cell) == SelectSeq(cell, LAMBDA c : c # " ")[1]

\* the first parse of the table text has returned
Parsed == pc = "parsed" /\ io.round = 0

\* C11: a successfully parsed table binds, for each data row i and each
\* column j below the number of header states, the pair (j-th header state,
\* label of row i) to the rule in the trimmed j-th rule cell of the row;
\* states() is the header order, alphabet() the data-row order, and no other
\* pair is bound.
C11_ParsedTableBindsCells ==
    (Parsed /\ io.parsed.kind = "Ok") =>
        LET g == io.grid
            rs == io.parsed.ruleset
            rows == DataRows(g)
            n == Len(g.header)
            st(j) == NumberIn(g.header[j])
            symbol(i) == LabelIn(rows[i][1])
            columns(i) == 1..(IF Len(rows[i]) - 1 < n THEN Len(rows[i]) - 1 ELSE n)
        IN  /\ rs.states = [j \in 1..n |-> st(j)]
            /\ rs.alphabet = [i \in 1..Len(rows) |-> symbol(i)]
            /\ DOMAIN rs.rules = {st(j) : j \in 1..n}
            /\ \A i \in 1..Len(rows) : \A j \in columns(i) :
                  /\ Bound(rs, st(j), symbol(i))
                  /\ rs.rules[st(j)][symbol(i)] = RuleIn(rows[i][j + 1])
            /\ \A s \in DOMAIN rs.rules : \A c \in DOMAIN rs.rules[s] :
                  \E i \in 1..Len(rows) : \E j \in columns(i) :
                      s = st(j) /\ c = symbol(i)

C11_Witness ==
    /\ Parsed /\ io.parsed.kind = "Ok"
    /\ io.grid.header = <<<<"1">>, <<" ", "0", " ">>>>
    /\ Len(io.grid.rows) = 2
    /\ io.parsed.ruleset.states = <<1, 0>>
    /\ io.parsed.ruleset.alphabet = <<"a", "_">>
    /\ Bound(io.parsed.ruleset, 1, "_") /\ Bound(io.parsed.ruleset, 0, "a")
    /\ io.parsed.ruleset.rules[1]["_"] = RuleNew("_", "Stop", 0)
    /\ io.parsed.ruleset.rules[0]["a"] = RuleNew("_", "Left", 0)

\* the second parse, that of the rendered text, has returned
Reparsed == pc = "parsed" /\ io.round = 1

\* every pair of a state of states() and a symbol of alphabet() is bound
FullyBound(rs) ==
    \A j \in 1..Len(rs.states) : \A i \in 1..Len(rs.alphabet) :
        Bound(rs, rs.states[j], rs.alphabet[i])

ProbeStates == {0, 1, 2}

ProbeSymbols == {"a", "_", "b"}

\* both rulesets answer every find alike
SameFinds(rs1, rs2) ==
    \A st \in ProbeStates : \A symbol \in ProbeSymbols :
        RulesetFind(rs1, st, symbol) = RulesetFind(rs2, st, symbol)

\* C12: when a table text parses and binds every (state, symbol) pair,
\* parsing the rendered text of the parsed ruleset succeeds and gives the
\* same find result for every pair as the ruleset parsed first.
C12_FullTableRoundTrip ==
    (Reparsed /\ FullyBound(io.first.ruleset)) =>
        /\ io.parsed.kind = "Ok"
        /\ SameFinds(io.parsed.ruleset, io.first.ruleset)

\* a header cell that shows a state id
ValidStateCell(cell) == IsUnsignedText(Trim(cell))

\* a label cell that shows one symbol
ValidLabelCell(cell) == Len(Trim(cell)) = 1

\* a rule cell that shows symbol, marker and state id
ValidRuleCell(cell) ==
    LET shown == Trim(cell)
    IN  /\ Len(shown) >= 3
        /\ shown[2] \in {">", "<", "!"}
        /\ IsUnsignedText(SubSeq(shown, 3, Len(shown)))

\* the header shows state ids, no two the same
ValidHeader(g) ==
    /\ \A j \in 1..Len(g.header) : ValidStateCell(g.header[j])
    /\ \A j, k \in 1..Len(g.header) :
          j # k => NumberIn(g.header[j]) # NumberIn(g.header[k])

\* the rule cells of a row that stand under a header state
ColumnsOf(g, row) ==
    1..(IF Len(row) - 1 < Len(g.header) THEN Len(row) - 1 ELSE Len(g.header))

\* a row with a label and, under the header states it reaches, rules
ValidRow(g, row) ==
    /\ row # <<>>
    /\ ValidLabelCell(row[1])
    /\ \A j \in ColumnsOf(g, row) : ValidRuleCell(row[j + 1])

\* nothing is wrong with the table but, maybe, the number of cells of a row
ValidTable(g) ==
    /\ ValidHeader(g)
    /\ \A i \in 1..Len(DataRows(g)) : ValidRow(g, DataRows(g)[i])
    /\ \A i, k \in 1..Len(DataRows(g)) :
          i # k => LabelIn(DataRows(g)[i][1]) # LabelIn(DataRows(g)[k][1])

\* row is a data row with fewer rule cells than the header has states
ShortRow(g, row) == row # <<>> /\ Len(row) - 1 < Len(g.header)

\* the lines after the header, as the body loop enumerates them from 0
BodyRows(g) ==
    (IF g.separator = <<>> THEN <<>> ELSE <<<<g.separator[1]>>>>) \o g.rows

\* C13 as stated: a data row with fewer rule cells than the header has
\* states makes the parse fail with InvalidFormat.
C13_ShortRowIsInvalidFormat ==
    (Parsed /\ ValidTable(io.grid)
        /\ \E i \in 1..Len(DataRows(io.grid)) : ShortRow(io.grid, DataRows(io.grid)[i]))
    => (io.parsed.kind = "Err" /\ io.parsed.err.type = "InvalidFormat")

\* C13, amended: a data row with fewer rule cells than the header has states
\* does not fail; the pairs of its missing columns stay unbound.  An
\* InvalidFormat error has col 0 and names a line without any cell.
C13_ShortRowLeavesUnbound ==
    /\ (Parsed /\ ValidTable(io.grid)) =>
          /\ io.parsed.kind = "Ok"
          /\ \A i \in 1..Len(DataRows(io.grid)) :
                LET row == DataRows(io.grid)[i]
                IN  \A j \in 1..Len(io.grid.header) :
                        j > Len(row) - 1 =>
                            ~Bound(io.parsed.ruleset, NumberIn(io.grid.header[j]),
                                   LabelIn(row[1]))
    /\ (Parsed /\ io.parsed.err.type = "InvalidFormat") =>
          /\ io.parsed.err.col = 0
          /\ io.parsed.err.row < Len(BodyRows(io.grid))
          /\ BodyRows(io.grid)[io.parsed.err.row + 1] = <<>>

C13_Witness ==
    /\ Parsed /\ ValidTable(io.grid)
    /\ io.grid.header = <<<<" ", "0", " ">>, <<"1">>>>
    /\ DataRows(io.grid) = <<<<<<" ", "a", " ">>, <<" ", "a", ">", "1", " ">>>>>>
    /\ io.parsed.kind = "Ok"
    /\ Bound(io.parsed.ruleset, 0, "a")
    /\ ~Bound(io.parsed.ruleset, 1, "a")

\* the grid without the cells that stand beyond the header's last state
WithoutExtraCells(g) ==
    [g EXCEPT !.rows = [i \in 1..Len(g.rows) |-> Take(g.rows[i], Len(g.header) + 1)]]

\* some row has more rule cells than the header has states
HasExtraCells(g) == \E i \in 1..Len(g.rows) : Len(g.rows[i]) - 1 > Len(g.header)

\* C14 as stated: a data row with more rule cells than the header has
\* states parses; the cells beyond the header's state count are not parsed,
\* and the table is the one the text without them gives.
C14_ExtraCellsIgnored ==
    (Parsed /\ HasExtraCells(io.grid) /\ ValidTable(WithoutExtraCells(io.grid))) =>
        /\ io.parsed.kind = "Ok"
        /\ io.parsed = RulesetFromStr(GridText(WithoutExtraCells(io.grid)))

\* C14, amended: the same, unless the row is the first line after the header
\* and its extra cells make the line contain ":-" or "--"; that line is
\* skipped as the separator, and the table is the one the text without the
\* line gives.
C14_ExtraCellsIgnoredUnlessSeparator ==
    (Parsed /\ HasExtraCells(io.grid) /\ ValidTable(WithoutExtraCells(io.grid))) =>
        /\ io.parsed.kind = "Ok"
        /\ IF DataRows(io.grid) = io.grid.rows
           THEN io.parsed = RulesetFromStr(GridText(WithoutExtraCells(io.grid)))
           ELSE io.parsed = RulesetFromStr(GridText(
                    WithoutExtraCells([io.grid EXCEPT !.rows = Tail(@)])))

C14_Witness ==
    /\ Parsed /\ ValidTable(WithoutExtraCells(io.grid))
    /\ io.grid.header = <<<<" ", "0", " ">>, <<"1">>>>
    /\ io.grid.rows = <<<<<<" ", "a", " ">>, <<" ", "a", ">", "1", " ">>, <<" ", "_", "<", "0", " ">>, <<" ", "z", "z", " ">>>>>>
    /\ io.parsed.kind = "Ok"
    /\ io.parsed.ruleset.alphabet = <<"a">>
    /\ Bound(io.parsed.ruleset, 1, "a")

\* header cell k shows the state id of an earlier header cell
RepeatsState(g, k) ==
    /\ ValidStateCell(g.header[k])
    /\ \E j \in 1..(k - 1) :
          ValidStateCell(g.header[j]) /\ NumberIn(g.header[j]) = NumberIn(g.header[k])

\* data row k has the label of an earlier data row
RepeatsSymbol(g, k) ==
    LET rows == DataRows(g)
    IN  /\ rows[k] # <<>> /\ ValidLabelCell(rows[k][1])
        /\ \E i \in 1..(k - 1) :
              /\ rows[i] # <<>> /\ ValidLabelCell(rows[i][1])
              /\ LabelIn(rows[i][1]) = LabelIn(rows[k][1])

\* C15 as stated: parsing fails with DuplicateState when the header repeats
\* a state id, and with DuplicateSymbol when two data rows have the same
\* label.
C15_DuplicatesAlwaysReported ==
    Parsed =>
        LET g == io.grid
            states == {k \in 1..Len(g.header) : RepeatsState(g, k)}
            symbols == {k \in 1..Len(DataRows(g)) : RepeatsSymbol(g, k)}
        IN  /\ states # {} =>
                io.parsed.err = DuplicateState(NumberIn(g.header[MinOf(states)]))
            /\ (states = {} /\ symbols # {}) =>
                io.parsed.err =
                    DuplicateSymbol(LabelIn(DataRows(g)[MinOf(symbols)][1]))

\* C15, amended: parsing fails with DuplicateState when a header cell
\* repeats the state id of an earlier one and every header cell before it is
\* a state id; it fails with DuplicateSymbol when the header is valid, a data
\* row has the label of an earlier one and no data row before it has an
\* error.  Every parsed Ruleset has pairwise distinct states() and pairwise
\* distinct alphabet() entries.
C15_FirstDuplicateReported ==
    Parsed =>
        LET g == io.grid
            rs == io.parsed.ruleset
            states == {k \in 1..Len(g.header) : RepeatsState(g, k)}
            symbols == {k \in 1..Len(DataRows(g)) : RepeatsSymbol(g, k)}
        IN  /\ (/\ states # {}
                /\ \A j \in 1..(MinOf(states) - 1) : ValidStateCell(g.header[j]))
               => io.parsed.err = DuplicateState(NumberIn(g.header[MinOf(states)]))
            /\ (/\ ValidHeader(g) /\ symbols # {}
                /\ \A i \in 1..(MinOf(symbols) - 1) : ValidRow(g, DataRows(g)[i]))
               => io.parsed.err =
                      DuplicateSymbol(LabelIn(DataRows(g)[MinOf(symbols)][1]))
            /\ io.parsed.kind = "Ok" =>
                  /\ \A j, k \in 1..Len(rs.states) : j # k => rs.states[j] # rs.states[k]
                  /\ \A i, k \in 1..Len(rs.alphabet) :
                        i # k => rs.alphabet[i] # rs.alphabet[k]

C15_Witness ==
    /\ Parsed
    /\ io.grid.header = <<<<" ", "0", " ">>, <<"1">>, <<"0", "1">>>>
    /\ io.parsed.kind = "Err"
    /\ io.parsed.err = DuplicateState(1)

\* C18: rendering lists the states in states() order and the symbols in
\* alphabet() order, so parsing the rendered text gives back the states()
\* and the alphabet() sequences of the rendered ruleset.
C18_RenderKeepsOrders ==
    (Reparsed /\ io.parsed.kind = "Ok") =>
        /\ io.keys = io.first.ruleset.states
        /\ io.parsed.ruleset.states = io.first.ruleset.states
        /\ io.parsed.ruleset.alphabet = io.first.ruleset.alphabet

\* C19: when some (state, symbol) pairs of a Ruleset are unbound, parsing
\* its rendered text succeeds and gives a table in which the pairs bound
\* before are bound to the same rules and the pairs unbound before are
\* unbound.
C19_PartialTableRoundTrip ==
    (Reparsed /\ ~FullyBound(io.first.ruleset)) =>
        /\ io.parsed.kind = "Ok"
        /\ SameFinds(io.parsed.ruleset, io.first.ruleset)

\* the grid without its separator line
WithoutSeparator(g) == [g EXCEPT !.separator = <<>>]

\* C20: only the first line after the header can be skipped as a separator,
\* and a skipped separator does not count as a row: the row index of an
\* InvalidSymbol, InvalidFormat or InvalidRule error for a data row is the
\* one reported for the text without the separator line.
C20_RowIndexIgnoresSeparator ==
    (/\ Parsed
     /\ io.grid.separator # <<>>
     /\ DataRows(WithoutSeparator(io.grid)) = io.grid.rows
     /\ io.parsed.err.type \in {"InvalidSymbol", "InvalidFormat", "InvalidRule"})
    => LET other == RulesetFromStr(GridText(WithoutSeparator(io.grid)))
       IN  /\ other.err.type = io.parsed.err.type
           /\ other.err.row = io.parsed.err.row

----------------------------------------------------------------------------
(* Further claims about the tape, checked under SpecTape                   *)

\* C21: head() right after set_head(p) is p, also when p is left of the
\* buffer and the relocation grows the buffer to the left.
C21_SetHeadThenHead ==
    (pc = "tape" /\ lastOp.op = "set_head") => TapeHead(tape) = lastOp.head

\* C22: after Tape::new(initial, head, data_start_at), set_head to
\* data_start_at + i followed by read() gives initial[i], for every index i
\* of initial.
C22_SetHeadReadsInitial ==
    (pc = "tape" /\ steps = 1 /\ lastOp.op = "set_head" /\ InWindow(ideal, lastOp.head))
        => TapeRead(tape) = ideal.initial[lastOp.head - ideal.start + 1]

\* the index a call moves to, before the buffer is extended
MovedIndex(t, op) ==
    IF op.op = "apply_rule" THEN t.index + Delta(op.rule.mov)
    ELSE op.head + t.head_offset

\* the buffer a call leaves to be extended
BufferBeforeExtend(t, op) ==
    IF op.op = "apply_rule" THEN TapeWrite(t, op.rule.write).data ELSE t.data

\* C23: the buffer never shrinks and grows minimally.  A call that moves the
\* index to i < 0 prepends exactly -i blanks, one that moves it to
\* i >= length appends exactly i - length + 1 blanks, any other call leaves
\* the length as it is; the cells there before keep their symbols and order.
C23_GrowthIsMinimal ==
    [][ (pc = "tape" /\ ~panic') =>
            LET i == MovedIndex(tape, lastOp')
                before == BufferBeforeExtend(tape, lastOp')
            IN  /\ i < 0 => tape'.data = Blanks(-i) \o before
                /\ i >= Len(before) => tape'.data = before \o Blanks(i - Len(before) + 1)
                /\ (i >= 0 /\ i < Len(before)) => tape'.data = before ]_vars

\* C23 witness: one set_head call has put two blanks in front of the buffer
C23_Witness ==
    LET first == TapeNew(ideal.initial, ideal.head, ideal.start)
    IN  /\ pc = "tape" /\ steps = 1 /\ lastOp.op = "set_head"
        /\ Len(first.data) = 2
        /\ tape.data = Blanks(2) \o first.data
        /\ tape.index = 0

----------------------------------------------------------------------------
(* Claims about the driver's run, checked under SpecApp                    *)

C25_AtMostMaxIteration ==
    pc \in {"run", "done", "failed"} =>
        (steps <= max_iteration /\ Len(app.storage) <= max_iteration)

\* the last element of a non-empty sequence
Last(seq) == seq[Len(seq)]

\* C26: every applied transition is in the history exactly once, in order:
\* each entry's state is the next_state of the rule of the entry before it
\* and its tape is that entry's tape after its rule; the engine's live state
\* and tape stand in the same relation to the last entry.
C26_HistoryChainsTransitions ==
    pc \in {"run", "done", "failed"} =>
        LET h == app.storage
        IN  /\ Len(h) = steps
            /\ \A i \in 1..(Len(h) - 1) :
                  /\ h[i + 1].state = h[i].rule.next_state
                  /\ h[i + 1].tape = TapeApplyRule(h[i].tape, h[i].rule)
            /\ Len(h) > 0 =>
                  /\ state = Last(h).rule.next_state
                  /\ tape = TapeApplyRule(Last(h).tape, Last(h).rule)

\* C26 witness: three transitions recorded, the engine in another state than
\* the first entry and on a longer tape
C26_Witness ==
    /\ pc = "run" /\ Len(app.storage) = 3
    /\ state # app.storage[1].state
    /\ Len(tape.data) > Len(app.storage[1].tape.data)

----------------------------------------------------------------------------
(* Claims about the driver in both modes, checked under SpecMain           *)

\* C27: the listener is called once per recorded transition, in order, with
\* that transition and the running count; the k-th report of a run carries
\* the same step number, the listener's count k, whether it is written by
\* the listener (no terminal) or from the history at exit (interactive).
C27_SameStepNumbers ==
    pc \in {"run", "done", "failed", "written"} =>
        /\ app.listener => Len(app.out) = Len(app.storage)
        /\ \A k \in 1..Len(app.out) :
              /\ app.out[k].transition = app.storage[k]
              /\ app.out[k].step = k

\* C28: in the interactive driver the scroll offset is a valid position
\* after any interleaving of steps, scroll_up and scroll_down (0 while the
\* history is empty, at most length - 1 otherwise), and scroll_down on an
\* empty history completes without an arithmetic underflow.
C28_ScrollOffsetValid ==
    pc \in {"update", "events", "draw", "written"} =>
        /\ ~(panic /\ lastOp.op = "Down")
        /\ IF app.storage = <<>> THEN app.offset = 0
           ELSE app.offset <= Len(app.storage) - 1

\* C29: the visualizer draws the rules table of every parsed ruleset, also
\* one that leaves a (state, symbol) pair of states() and alphabet() unbound.
C29_RulesTableDraws ==
    pc \in {"update", "events", "draw", "written"} =>
        ~(panic /\ lastOp.op = "RulesetWidget::render")

====
